---- MODULE Spec2Model ----
(***************************************************************************)
(* The CountDown dashboard widget (src/src/components/CountDown/index.tsx) *)
(* as a state machine: the React state (config, data, loading), the host   *)
(* (dashboard.state, the configuration store, the active table, the       *)
(* render-complete signal) and the aggregation runs in flight, one step    *)
(* per continuation of the async function between two awaits.              *)
(*                                                                         *)
(* Strings of the source that are not ASCII are written in pinyin:         *)
(*   "zhengchang" is the verdict text for "normal",                        *)
(*   "weigui"     is the verdict text for "violation",                     *)
(*   "jia", "yi", "bing" are three category texts,                         *)
(*   "e_nfc" is the one-character text U+00E9 (e with acute accent),       *)
(*   "e_nfd" is the two-character text U+0065 U+0301 (e, combining acute): *)
(*   two different strings that are canonically equivalent.                *)
(***************************************************************************)
EXTENDS Integers, Sequences, FiniteSets

\* ------------------------------------------------------------ bounds

\* Aggregation runs that may be in flight at once.
MaxRuns == 2

\* Records the active table may hold.
MaxRecords == 2

\* ------------------------------------------------------ JavaScript values

Undefined == [tag |-> "undefined"]

Null == [tag |-> "null"]

Str(s) == [tag |-> "string", s |-> s]

Num(n) == [tag |-> "number", n |-> n]

Bool(b) == [tag |-> "boolean", b |-> b]

Arr(elems) == [tag |-> "array", elems |-> elems]

Obj(props) == [tag |-> "object", props |-> props]

\* The two verdict texts the aggregation loop compares against.
NORMAL == "zhengchang"

VIOLATION == "weigui"

\* Decimal text of the numbers that occur as cell values.
NumStr(n) ==
    CASE n = 0 -> "0"
      [] n = 7 -> "7"
      [] OTHER -> "NaN"

\* String(v), for the values that reach the last line of normalizeText or are
\* used as a property key. No value of the model holds an array as a text or
\* name property, so String is never applied to an array.
String(v) ==
    CASE v.tag = "string" -> v.s
      [] v.tag = "number" -> NumStr(v.n)
      [] v.tag = "boolean" -> (IF v.b THEN "true" ELSE "false")
      [] v.tag = "undefined" -> "undefined"
      [] v.tag = "null" -> "null"
      [] OTHER -> "[object Object]"

\* !v
Falsy(v) ==
    \/ v.tag \in {"undefined", "null"}
    \/ v.tag = "string" /\ v.s = ""
    \/ v.tag = "number" /\ v.n = 0
    \/ v.tag = "boolean" /\ ~v.b

\* normalizeText that takes the first element of a sequence that is not null
\* or undefined, where the source takes the first element.
RECURSIVE normalizeTextFirstPresent(_)
normalizeTextFirstPresent(v) ==
    IF v.tag \in {"null", "undefined"} THEN Str("")
    ELSE IF v.tag = "string" THEN v
    ELSE IF v.tag = "array"
         THEN IF Len(v.elems) = 0 THEN Str("")
              ELSE IF v.elems[1].tag \in {"null", "undefined"} /\ Len(v.elems) > 1
                   THEN normalizeTextFirstPresent(Arr(Tail(v.elems)))
                   ELSE normalizeTextFirstPresent(v.elems[1])
    ELSE IF v.tag = "object" /\ "text" \in DOMAIN v.props THEN v.props["text"]
    ELSE IF v.tag = "object" /\ "name" \in DOMAIN v.props THEN v.props["name"]
    ELSE Str(String(v))

\* normalizeText with the `'name' in v` test before the `'text' in v` test.
RECURSIVE normalizeTextNameFirst(_)
normalizeTextNameFirst(v) ==
    IF v.tag \in {"null", "undefined"} THEN Str("")
    ELSE IF v.tag = "string" THEN v
    ELSE IF v.tag = "array"
         THEN IF Len(v.elems) = 0 THEN Str("") ELSE normalizeTextNameFirst(v.elems[1])
    ELSE IF v.tag = "object" /\ "name" \in DOMAIN v.props THEN v.props["name"]
    ELSE IF v.tag = "object" /\ "text" \in DOMAIN v.props THEN v.props["text"]
    ELSE Str(String(v))

RECURSIVE normalizeText(_)
normalizeText(v) ==
    IF v.tag \in {"null", "undefined"} THEN Str("")
    ELSE IF v.tag = "string" THEN v
    ELSE IF v.tag = "array"
         THEN IF Len(v.elems) = 0 THEN Str("") ELSE normalizeText(v.elems[1])
    ELSE IF v.tag = "object" /\ "text" \in DOMAIN v.props THEN v.props["text"]
    ELSE IF v.tag = "object" /\ "name" \in DOMAIN v.props THEN v.props["name"]
    ELSE Str(String(v))

\* ------------------------------------------------------------ tallies

\* Keys that `map[behavior]` finds on Object.prototype although the object
\* literal `{}` has no own property of that name.
ObjectPrototypeKeys ==
    {"constructor", "toString", "valueOf", "hasOwnProperty", "__proto__"}

\* The object literal of the `map[behavior] = {...}` assignment.
ZeroTally ==
    [aiNormal |-> 0, aiViolation |-> 0, reviewerNormal |-> 0, reviewerViolation |-> 0]

\* `map` is the sequence of its own properties, [key, v], in insertion order.
OwnKeys(map) == {map[j].key : j \in DOMAIN map}

\* !map[behavior] : no own property and nothing inherited under that key.
MissingKey(map, key) == key \notin OwnKeys(map) /\ key \notin ObjectPrototypeKeys

EnsureTally(map, key) ==
    IF MissingKey(map, key) THEN Append(map, [key |-> key, v |-> ZeroTally]) ELSE map

\* TallyAi with a plain else: every verdict that is not "normal" counts as a
\* violation.
TallyAiElse(t, aiText) ==
    IF aiText = Str(NORMAL) THEN [t EXCEPT !.aiNormal = @ + 1]
    ELSE [t EXCEPT !.aiViolation = @ + 1]

\* The if / else-if on aiText.
TallyAi(t, aiText) ==
    IF aiText = Str(NORMAL) THEN [t EXCEPT !.aiNormal = @ + 1]
    ELSE IF aiText = Str(VIOLATION) THEN [t EXCEPT !.aiViolation = @ + 1]
    ELSE t

\* TallyReviewer that counts a "normal" verdict under both counters.
TallyReviewerBoth(t, reviewerText) ==
    IF reviewerText = Str(NORMAL)
    THEN [t EXCEPT !.reviewerNormal = @ + 1, !.reviewerViolation = @ + 1]
    ELSE IF reviewerText = Str(VIOLATION) THEN [t EXCEPT !.reviewerViolation = @ + 1]
    ELSE t

\* The if / else-if on reviewerText.
TallyReviewer(t, reviewerText) ==
    IF reviewerText = Str(NORMAL) THEN [t EXCEPT !.reviewerNormal = @ + 1]
    ELSE IF reviewerText = Str(VIOLATION) THEN [t EXCEPT !.reviewerViolation = @ + 1]
    ELSE t

\* ScanRecord without the `if (!behavior) continue`.
ScanRecordNoSkip(map, behaviorRaw, aiRaw, reviewerRaw) ==
    LET key == String(normalizeText(behaviorRaw))
        m1 == EnsureTally(map, key)
    IN  [j \in DOMAIN m1 |->
           IF m1[j].key = key
           THEN [m1[j] EXCEPT !.v = TallyReviewer(TallyAi(@, normalizeText(aiRaw)),
                                                  normalizeText(reviewerRaw))]
           ELSE m1[j]]

\* One iteration of the loop body after its three awaits. An increment of
\* map[key] where key is only inherited lands on the inherited object and
\* leaves the own properties of map as they are.
ScanRecord(map, behaviorRaw, aiRaw, reviewerRaw) ==
    LET behavior == normalizeText(behaviorRaw) IN
    IF Falsy(behavior) THEN map
    ELSE LET key == String(behavior)
             m1 == EnsureTally(map, key)
             aiText == normalizeText(aiRaw)
             reviewerText == normalizeText(reviewerRaw)
         IN  [j \in DOMAIN m1 |->
                IF m1[j].key = key
                THEN [m1[j] EXCEPT !.v = TallyReviewer(TallyAi(@, aiText), reviewerText)]
                ELSE m1[j]]

\* Keys that are array indices: Object.entries lists them first, ascending.
IsIndexKey(key) == key \in {"0", "7"}

IndexEntry(e) == IsIndexKey(e.key)

NamedEntry(e) == ~IsIndexKey(e.key)

ZeroEntry(e) == e.key = "0"

\* Object.entries(map)
Entries(map) ==
    SelectSeq(map, ZeroEntry)
      \o SelectSeq(map, LAMBDA e : IndexEntry(e) /\ ~ZeroEntry(e))
      \o SelectSeq(map, NamedEntry)

\* Object.entries(map).map(([behavior, v]) => ({behavior, ...}))
ToResult(map) ==
    LET es == Entries(map) IN
    [j \in DOMAIN es |->
        [behavior |-> es[j].key,
         aiNormal |-> es[j].v.aiNormal,
         aiViolation |-> es[j].v.aiViolation,
         reviewerNormal |-> es[j].v.reviewerNormal,
         reviewerViolation |-> es[j].v.reviewerViolation]]

\* Rank of a text in the zh-CN collation: punctuation, digits, Latin letters,
\* then Han characters by pinyin. Canonically equivalent texts have one rank:
\* localeCompare returns 0 for them.
CollationKey(s) ==
    CASE s = "[object Object]" -> 1
      [] s = "0" -> 2
      [] s = "7" -> 3
      [] s = "constructor" -> 4
      [] s = "e_nfc" -> 5
      [] s = "e_nfd" -> 5
      [] s = "true" -> 6
      [] s = "bing" -> 7
      [] s = "jia" -> 8
      [] s = "weigui" -> 9
      [] s = "yi" -> 10
      [] s = "zhengchang" -> 11
      [] OTHER -> 0

\* a.behavior.localeCompare(b.behavior, 'zh-CN')
localeCompare(a, b) ==
    IF CollationKey(a) < CollationKey(b) THEN -1
    ELSE IF CollationKey(a) > CollationKey(b) THEN 1
    ELSE 0

\* Insert e into the sorted sequence s after every element that does not
\* compare greater (the sort is stable).
RECURSIVE InsertSorted(_, _)
InsertSorted(s, e) ==
    IF s = <<>> THEN <<e>>
    ELSE IF localeCompare(s[Len(s)].behavior, e.behavior) <= 0 THEN Append(s, e)
    ELSE Append(InsertSorted(SubSeq(s, 1, Len(s) - 1), e), s[Len(s)])

\* result.sort((a, b) => a.behavior.localeCompare(b.behavior, 'zh-CN'))
RECURSIVE SortResult(_)
SortResult(result) ==
    IF result = <<>> THEN <<>>
    ELSE InsertSorted(SortResult(SubSeq(result, 1, Len(result) - 1)),
                      result[Len(result)])

\* ------------------------------------------------------------ state

VARIABLES
    state,             \* dashboard.state
    store,             \* the object the host's configuration store holds
    getConfigPending,  \* the promise of dashboard.getConfig() is not settled
    config,            \* useState: the current configuration
    data,              \* useState: the displayed series
    loading,           \* useState: the loading indicator
    runs,              \* the invocations of the async function in flight,
                       \* oldest first
    table,             \* the host's active table: its records in order
    rendered,          \* parity of the number of dashboard.setRendered() calls
    hasSetRendered,    \* typeof dashboard.setRendered === 'function'
    stale              \* history: stale[i] iff a run newer than runs[i] has
                       \* been started (for a configuration applied later)

vars ==
    <<state, store, getConfigPending, config, data, loading, runs, table,
      rendered, hasSetRendered, stale>>

Slots == 1 .. MaxRuns

RecordIds == 1 .. MaxRecords

FieldIds == {"f1", "f2", "f3"}

DashboardStates == {"Create", "Config", "View"}

\* IChartConfig: an absent property reads as undefined.
Cfg(b, a, r) == [behaviorFieldId |-> b, aiFieldId |-> a, reviewerFieldId |-> r]

defaultConfig == Cfg(Undefined, Undefined, Undefined)

CfgA == Cfg(Str("f1"), Str("f2"), Str("f3"))

CfgB == Cfg(Str("f1"), Str("f3"), Str("f2"))

\* The configurations the host delivers or the panel builds.
Configs ==
    {defaultConfig, CfgA, CfgB,
     Cfg(Str("f1"), Str(""), Str("f3"))}

EmptyStore == [p \in {} |-> defaultConfig]

StoreOf(key, c) == [p \in {key} |-> c]

\* Payloads e.data of the onConfigChange event.
Events ==
    {StoreOf("config", c) : c \in Configs} \cup {StoreOf("customConfig", CfgB)}

\* Cell values of the records of the active table.
RowA == [f \in FieldIds |->
            CASE f = "f1" -> Str("jia")
              [] f = "f2" -> Str(NORMAL)
              [] OTHER -> Arr(<<Obj([p \in {"text"} |-> Str(VIOLATION)])>>)]

RowB == [f \in FieldIds |->
            CASE f = "f1" -> Obj([p \in {"name"} |-> Str("bing")])
              [] f = "f2" -> Str(VIOLATION)
              [] OTHER -> Null]

Rows == {RowA, RowB}

\* The table of the records with ids 1..Len(c) and the cells c[1], c[2], ...
TableOf(c) == [j \in DOMAIN c |-> [id |-> j, cells |-> c[j]]]

\* The host when the component starts: its table, whether it provides
\* setRendered, and what its configuration store holds (nothing, or an object
\* with a config property).
InitialHosts ==
    {[table |-> TableOf(<<>>), hasSetRendered |-> FALSE, store |-> EmptyStore],
     [table |-> TableOf(<<>>), hasSetRendered |-> TRUE, store |-> StoreOf("config", CfgA)],
     [table |-> TableOf(<<RowA, RowB>>), hasSetRendered |-> TRUE,
      store |-> StoreOf("config", CfgA)]}

\* NewRun with one map for all runs: a run goes on with the tallies of the run
\* started before it.
NewRunSharedMap(c) ==
    [pc |-> "getActiveTable", cfg |-> c, ids |-> <<>>, k |-> 0,
     behaviorRaw |-> Undefined, aiRaw |-> Undefined,
     map |-> IF runs = <<>> THEN <<>> ELSE runs[Len(runs)].map]

\* The async function up to its first await: getActiveTable() is pending,
\* the closure holds the configuration c of the render, map is not yet made.
NewRun(c) ==
    [pc |-> "getActiveTable", cfg |-> c, ids |-> <<>>, k |-> 0,
     behaviorRaw |-> Undefined, aiRaw |-> Undefined, map |-> <<>>]

\* s without its i-th element.
RemoveAt(s, i) == SubSeq(s, 1, i - 1) \o SubSeq(s, i + 1, Len(s))

Init ==
    /\ state \in DashboardStates
    /\ getConfigPending = TRUE
    /\ config = defaultConfig
    /\ data = <<>>
    /\ loading = FALSE
    /\ runs = <<>>
    /\ \E h \in InitialHosts :
         /\ table = h.table
         /\ hasSetRendered = h.hasSetRendered
         /\ store = h.store
    /\ rendered = 0
    /\ stale = <<>>

\* ------------------------------------------------------------ the effects

isConfig == state = "Create" \/ state = "Config"

\* GateOpen with a test for undefined in place of the truthiness test.
GateOpenIfDefined(c) ==
    ~(c.behaviorFieldId = Undefined \/ c.aiFieldId = Undefined
        \/ c.reviewerFieldId = Undefined)

\* The negation of the second early return of the aggregation effect.
GateOpen(c) ==
    ~(Falsy(c.behaviorFieldId) \/ Falsy(c.aiFieldId) \/ Falsy(c.reviewerFieldId))

\* The dependency list of the aggregation effect, compared by Object.is
\* (isConfig does not change while the component lives).
DepsChanged(old, new) ==
    \/ old.behaviorFieldId # new.behaviorFieldId
    \/ old.aiFieldId # new.aiFieldId
    \/ old.reviewerFieldId # new.reviewerFieldId

\* AggregationEffect without the `if (isConfig) return`.
AggregationEffectAnyMode(c) ==
    IF ~GateOpen(c)
    THEN UNCHANGED <<loading, runs, stale>>
    ELSE /\ Len(runs) < MaxRuns
         /\ loading' = TRUE
         /\ runs' = Append(runs, NewRun(c))
         /\ stale' = Append([i \in DOMAIN runs |-> TRUE], FALSE)

\* The aggregation effect, run after a render in which a dependency changed.
\* At most MaxRuns invocations are kept in flight.
AggregationEffect(c) ==
    IF isConfig \/ ~GateOpen(c)
    THEN UNCHANGED <<loading, runs, stale>>
    ELSE /\ Len(runs) < MaxRuns
         /\ loading' = TRUE
         /\ runs' = Append(runs, NewRun(c))
         /\ stale' = Append([i \in DOMAIN runs |-> TRUE], FALSE)

\* setConfig(c), the render it causes and the effects of that render.
SetConfig(c) ==
    /\ config' = c
    /\ IF DepsChanged(config, c)
       THEN AggregationEffect(c)
       ELSE UNCHANGED <<loading, runs, stale>>

\* dashboard.getConfig() resolves with the object the store holds:
\* .then(res => { if (res?.config) setConfig(res.config) }).
GetConfigResolved ==
    /\ getConfigPending
    /\ getConfigPending' = FALSE
    /\ \/ /\ "config" \in DOMAIN store
          /\ SetConfig(store["config"])
       \/ /\ "config" \notin DOMAIN store
          /\ UNCHANGED <<config, loading, runs, stale>>
    /\ UNCHANGED <<state, store, data, table, rendered, hasSetRendered>>

\* dashboard.getConfig() rejects: the callback of then does not run.
GetConfigRejected ==
    /\ getConfigPending
    /\ getConfigPending' = FALSE
    /\ UNCHANGED <<state, store, config, data, loading, runs, table, rendered,
                   hasSetRendered, stale>>

GetConfigSettled == GetConfigResolved \/ GetConfigRejected

\* The listener of dashboard.onConfigChange is called with e.data = d.
OnConfigChange(d) ==
    /\ \/ /\ "config" \in DOMAIN d
          /\ SetConfig(d["config"])
       \/ /\ "config" \notin DOMAIN d
          /\ UNCHANGED <<config, loading, runs, stale>>
    /\ UNCHANGED <<state, store, getConfigPending, data, table, rendered,
                   hasSetRendered>>

\* onChange of one of the three Select controls of the configuration panel.
SelectField(role, val) ==
    /\ isConfig
    /\ SetConfig([config EXCEPT ![role] = Str(val)])
    /\ UNCHANGED <<state, store, getConfigPending, data, table, rendered,
                   hasSetRendered>>

\* onClick of the save button: dashboard.saveConfig({customConfig: config, ...}).
SaveConfig ==
    /\ isConfig
    /\ store' = StoreOf("customConfig", config)
    /\ UNCHANGED <<state, getConfigPending, config, data, loading, runs, table,
                   rendered, hasSetRendered, stale>>

\* The panel is closed and the component is mounted anew in dashboard state
\* st: every useState starts from its initial value and the effect of the
\* first render asks the host for the configuration. The store is the host's
\* and stays.
Mount(st) ==
    /\ isConfig
    /\ state' = st
    /\ getConfigPending' = TRUE
    /\ config' = defaultConfig
    /\ data' = <<>>
    /\ loading' = FALSE
    /\ runs' = <<>>
    /\ stale' = <<>>
    /\ UNCHANGED <<store, table, rendered, hasSetRendered>>

\* ------------------------------------------------------------ one run

\* table.getRecordIdList()
RecordIdList == [j \in DOMAIN table |-> table[j].id]

\* field.getValue(recordId); a record that is gone has no value.
getValue(fieldId, recordId) ==
    IF \E j \in DOMAIN table : table[j].id = recordId
    THEN LET j == CHOOSE j \in DOMAIN table : table[j].id = recordId
         IN  table[j].cells[fieldId.s]
    ELSE Null

\* The finally block.
FinallyBlock ==
    /\ loading' = FALSE
    /\ rendered' = IF hasSetRendered THEN 1 - rendered ELSE rendered

\* The invocation runs[i] is over.
Release(i) ==
    /\ runs' = RemoveAt(runs, i)
    /\ stale' = RemoveAt(stale, i)

\* The end of the try block with the tallies in map, then the finally block.
Succeed(i, map) ==
    /\ data' = SortResult(ToResult(map))
    /\ FinallyBlock
    /\ Release(i)

\* Rejected with a setData of the tallies so far in the finally block.
RejectedWritesPartial(i) ==
    /\ i \in DOMAIN runs
    /\ data' = SortResult(ToResult(runs[i].map))
    /\ FinallyBlock
    /\ Release(i)
    /\ UNCHANGED <<state, store, getConfigPending, config, table, hasSetRendered>>

\* Rejected without the finally block: the rejection leaves the async function
\* at once.
RejectedNoFinally(i) ==
    /\ i \in DOMAIN runs
    /\ Release(i)
    /\ UNCHANGED <<state, store, getConfigPending, config, data, loading, table,
                   rendered, hasSetRendered>>

\* The pending await of run i rejects: the finally block runs and the
\* rejection leaves the async function.
Rejected(i) ==
    /\ i \in DOMAIN runs
    /\ data' = data
    /\ FinallyBlock
    /\ Release(i)
    /\ UNCHANGED <<state, store, getConfigPending, config, table, hasSetRendered>>

GetActiveTableResolved(i) ==
    /\ i \in DOMAIN runs
    /\ runs[i].pc = "getActiveTable"
    /\ runs' = [runs EXCEPT ![i].pc = "getRecordIdList"]
    /\ UNCHANGED <<state, store, getConfigPending, config, data, loading, table,
                   rendered, hasSetRendered, stale>>

GetRecordIdListResolved(i) ==
    /\ i \in DOMAIN runs
    /\ runs[i].pc = "getRecordIdList"
    /\ runs' = [runs EXCEPT ![i].pc = "getField_behavior", ![i].ids = RecordIdList]
    /\ UNCHANGED <<state, store, getConfigPending, config, data, loading, table,
                   rendered, hasSetRendered, stale>>

\* One of the three table.getField awaits resolves; after the third the loop
\* starts, or ends at once when there is no record.
GetFieldResolved(i) ==
    /\ i \in DOMAIN runs
    /\ UNCHANGED <<state, store, getConfigPending, config, table, hasSetRendered>>
    /\ \/ /\ runs[i].pc = "getField_behavior"
          /\ runs' = [runs EXCEPT ![i].pc = "getField_ai"]
          /\ UNCHANGED <<data, loading, rendered, stale>>
       \/ /\ runs[i].pc = "getField_ai"
          /\ runs' = [runs EXCEPT ![i].pc = "getField_reviewer"]
          /\ UNCHANGED <<data, loading, rendered, stale>>
       \/ /\ runs[i].pc = "getField_reviewer"
          /\ runs[i].ids # <<>>
          /\ runs' = [runs EXCEPT ![i].pc = "getValue_behavior", ![i].k = 1]
          /\ UNCHANGED <<data, loading, rendered, stale>>
       \/ /\ runs[i].pc = "getField_reviewer"
          /\ runs[i].ids = <<>>
          /\ Succeed(i, runs[i].map)

\* One of the three getValue awaits of the loop body resolves; after the
\* third the record is tallied and the loop goes on or ends.
GetValueResolved(i) ==
    LET r == runs[i]
        recordId == r.ids[r.k]
    IN
    /\ i \in DOMAIN runs
    /\ UNCHANGED <<state, store, getConfigPending, config, table, hasSetRendered>>
    /\ \/ /\ r.pc = "getValue_behavior"
          /\ runs' = [runs EXCEPT ![i].pc = "getValue_ai",
                                  ![i].behaviorRaw = getValue(r.cfg.behaviorFieldId, recordId)]
          /\ UNCHANGED <<data, loading, rendered, stale>>
       \/ /\ r.pc = "getValue_ai"
          /\ runs' = [runs EXCEPT ![i].pc = "getValue_reviewer",
                                  ![i].aiRaw = getValue(r.cfg.aiFieldId, recordId)]
          /\ UNCHANGED <<data, loading, rendered, stale>>
       \/ /\ r.pc = "getValue_reviewer"
          /\ r.k < Len(r.ids)
          /\ runs' = [runs EXCEPT
                        ![i].pc = "getValue_behavior",
                        ![i].k = r.k + 1,
                        ![i].behaviorRaw = Undefined,
                        ![i].aiRaw = Undefined,
                        ![i].map = ScanRecord(r.map, r.behaviorRaw, r.aiRaw,
                                              getValue(r.cfg.reviewerFieldId, recordId))]
          /\ UNCHANGED <<data, loading, rendered, stale>>
       \/ /\ r.pc = "getValue_reviewer"
          /\ r.k = Len(r.ids)
          /\ Succeed(i, ScanRecord(r.map, r.behaviorRaw, r.aiRaw,
                                   getValue(r.cfg.reviewerFieldId, recordId)))

\* ------------------------------------------------------------ the table

UsedIds == {table[j].id : j \in DOMAIN table}

\* Another user adds a record.
AddRecord(cells) ==
    /\ Len(table) < MaxRecords
    /\ LET id == CHOOSE id \in RecordIds \ UsedIds : \A o \in RecordIds \ UsedIds : id <= o
       IN  table' = Append(table, [id |-> id, cells |-> cells])
    /\ UNCHANGED <<state, store, getConfigPending, config, data, loading, runs,
                   rendered, hasSetRendered, stale>>

\* Another user removes the j-th record.
RemoveRecord(j) ==
    /\ j \in DOMAIN table
    /\ table' = RemoveAt(table, j)
    /\ UNCHANGED <<state, store, getConfigPending, config, data, loading, runs,
                   rendered, hasSetRendered, stale>>

\* Another user edits cells of the j-th record.
UpdateRecord(j, cells) ==
    /\ j \in DOMAIN table
    /\ table[j].cells # cells
    /\ table' = [table EXCEPT ![j].cells = cells]
    /\ UNCHANGED <<state, store, getConfigPending, config, data, loading, runs,
                   rendered, hasSetRendered, stale>>

\* ------------------------------------------------------------ specification

RunStep(i) ==
    \/ Rejected(i)
    \/ GetActiveTableResolved(i)
    \/ GetRecordIdListResolved(i)
    \/ GetFieldResolved(i)
    \/ GetValueResolved(i)

ConfigStep ==
    \/ GetConfigSettled
    \/ \E d \in Events : OnConfigChange(d)
    \/ \E role \in {"behaviorFieldId", "aiFieldId", "reviewerFieldId"} :
         \E val \in FieldIds : SelectField(role, val)
    \/ SaveConfig

DataStep ==
    \/ \E cells \in Rows : AddRecord(cells)
    \/ \E j \in RecordIds : RemoveRecord(j)
    \/ \E j \in RecordIds : \E cells \in Rows : UpdateRecord(j, cells)

\* The component under configuration changes, with overlapping runs and
\* failing accessors, over a table that does not change meanwhile.
Next ==
    \/ ConfigStep
    \/ \E i \in Slots : RunStep(i)

Spec == Init /\ [][Next]_vars

\* The component in display state under changes between two complete
\* configurations, when every pending accessor call of a run in flight
\* eventually resolves or rejects.
InitLive ==
    /\ Init
    /\ state = "View"
    /\ hasSetRendered

NextLive ==
    \/ GetConfigSettled
    \/ \E c \in {CfgA, CfgB} : OnConfigChange(StoreOf("config", c))
    \/ \E i \in Slots : RunStep(i)

SpecLive == InitLive /\ [][NextLive]_vars /\ \A i \in Slots : WF_vars(RunStep(i))

\* The component in display state once its configuration is complete and
\* stays as it is, over a table that other users edit and with accessors
\* that do not fail.
InitData ==
    /\ Init
    /\ state = "View"

NextData ==
    \/ GetConfigSettled
    \/ OnConfigChange(StoreOf("config", CfgA))
    \/ \E i \in Slots :
         \/ GetActiveTableResolved(i)
         \/ GetRecordIdListResolved(i)
         \/ GetFieldResolved(i)
         \/ GetValueResolved(i)
    \/ DataStep

SpecData == InitData /\ [][NextData]_vars

\* The aggregation over every table of a bounded set: the widget in display
\* state receives a complete configuration once and its run is left to end
\* without a failing accessor, over a table that does not change.
BehaviorCells ==
    {Null, Str("jia"), Obj([p \in {"name"} |-> Str("bing")]), Str("constructor")}

VerdictCells ==
    {Str(NORMAL), Arr(<<Obj([p \in {"text"} |-> Str(VIOLATION)])>>), Str("yi")}

AggRows ==
    {[f \in FieldIds |-> CASE f = "f1" -> b [] f = "f2" -> a [] OTHER -> r] :
        b \in BehaviorCells, a \in VerdictCells, r \in VerdictCells}

InitAgg ==
    /\ state = "View"
    /\ store = EmptyStore
    /\ getConfigPending = FALSE
    /\ config = defaultConfig
    /\ data = <<>>
    /\ loading = FALSE
    /\ runs = <<>>
    /\ \E n \in 0 .. MaxRecords : \E c \in [1 .. n -> AggRows] : table = TableOf(c)
    /\ rendered = 0
    /\ hasSetRendered = TRUE
    /\ stale = <<>>

NextAgg ==
    \/ OnConfigChange(StoreOf("config", CfgA))
    \/ \E i \in Slots :
         \/ GetActiveTableResolved(i)
         \/ GetRecordIdListResolved(i)
         \/ GetFieldResolved(i)
         \/ GetValueResolved(i)

SpecAgg == InitAgg /\ [][NextAgg]_vars

\* normalizeText over the shapes of raw cell values: the widget in display
\* state receives a complete configuration once and its run scans a table of
\* one record whose category cell and AI verdict cell are of any two shapes.
Text(s) == Obj([p \in {"text"} |-> Str(s)])

CellShapes ==
    {Null, Undefined, Str(""), Str("jia"), Num(7), Num(0), Bool(TRUE),
     Arr(<<>>),
     Arr(<<Text("jia"), Text("bing")>>),
     Arr(<<Null, Text("jia")>>),
     Arr(<<Arr(<<Text("yi")>>), Text("jia")>>),
     Text("jia"),
     Obj([p \in {"name"} |-> Str("bing")]),
     Obj([p \in {"text", "name"} |-> IF p = "text" THEN Str("jia") ELSE Str("bing")]),
     Obj([p \in {"id"} |-> Str("opt1")]),
     Obj([p \in {"text"} |-> Num(7)]),
     Obj([p \in {"text", "name"} |-> IF p = "text" THEN Undefined ELSE Str("bing")]),
     Obj([p \in {"name"} |-> Num(7)])}

ShapeRows ==
    {[f \in FieldIds |-> CASE f = "f1" -> b [] f = "f2" -> a [] OTHER -> Str(NORMAL)] :
        b \in CellShapes, a \in CellShapes}

InitNorm ==
    /\ state = "View"
    /\ store = EmptyStore
    /\ getConfigPending = FALSE
    /\ config = defaultConfig
    /\ data = <<>>
    /\ loading = FALSE
    /\ runs = <<>>
    /\ \E row \in ShapeRows : table = TableOf(<<row>>)
    /\ rendered = 0
    /\ hasSetRendered = TRUE
    /\ stale = <<>>

NextNorm ==
    \/ OnConfigChange(StoreOf("config", CfgA))
    \/ \E i \in Slots :
         \/ GetActiveTableResolved(i)
         \/ GetRecordIdListResolved(i)
         \/ GetFieldResolved(i)
         \/ GetValueResolved(i)

SpecNorm == InitNorm /\ [][NextNorm]_vars

\* The aggregation over tables whose category texts include two that the
\* collation does not tell apart.
OrderRows ==
    {[f \in FieldIds |-> CASE f = "f1" -> b [] f = "f2" -> a [] OTHER -> Str(NORMAL)] :
        b \in {Str("e_nfc"), Str("e_nfd"), Str("jia")},
        a \in {Str(NORMAL), Str(VIOLATION)}}

InitOrder ==
    /\ state = "View"
    /\ store = EmptyStore
    /\ getConfigPending = FALSE
    /\ config = defaultConfig
    /\ data = <<>>
    /\ loading = FALSE
    /\ runs = <<>>
    /\ \E n \in 0 .. MaxRecords : \E c \in [1 .. n -> OrderRows] : table = TableOf(c)
    /\ rendered = 0
    /\ hasSetRendered = TRUE
    /\ stale = <<>>

NextOrder ==
    \/ OnConfigChange(StoreOf("config", CfgA))
    \/ \E i \in Slots :
         \/ GetActiveTableResolved(i)
         \/ GetRecordIdListResolved(i)
         \/ GetFieldResolved(i)
         \/ GetValueResolved(i)

SpecOrder == InitOrder /\ [][NextOrder]_vars

\* The configuration panel over a store that holds nothing yet: fields are
\* selected, the configuration is saved, and the widget is opened in display
\* state, where getConfig resolves with the object the store was given.
InitSave ==
    /\ Init
    /\ isConfig
    /\ store = EmptyStore

NextSave ==
    \/ \E role \in {"behaviorFieldId", "aiFieldId", "reviewerFieldId"} :
         \E val \in FieldIds : SelectField(role, val)
    \/ SaveConfig
    \/ Mount("View")
    \/ GetConfigResolved

SpecSave == InitSave /\ [][NextSave]_vars

\* The map of one run after the first n records of tbl, when no await
\* rejects and tbl is the table throughout.
RECURSIVE Tallies(_, _, _)
Tallies(tbl, c, n) ==
    IF n = 0 THEN <<>>
    ELSE ScanRecord(Tallies(tbl, c, n - 1),
                    tbl[n].cells[c.behaviorFieldId.s],
                    tbl[n].cells[c.aiFieldId.s],
                    tbl[n].cells[c.reviewerFieldId.s])

\* The series such a run hands to setData.
Aggregate(tbl, c) == SortResult(ToResult(Tallies(tbl, c, Len(tbl))))

\* ------------------------------------------------------------ claims

\* A column reference is unset or the empty string.
Unset(v) == v = Undefined \/ v = Str("")

\* Some column reference of configuration c is unset or empty.
ConfigIncomplete(c) ==
    Unset(c.behaviorFieldId) \/ Unset(c.aiFieldId) \/ Unset(c.reviewerFieldId)

\* Run i is at its last await and this step is its successful end: it hands
\* its series to setData.
WritesSeries(i) ==
    /\ i \in DOMAIN runs
    /\ \/ /\ runs[i].pc = "getField_reviewer"
          /\ runs[i].ids = <<>>
          /\ data' = SortResult(ToResult(runs[i].map))
       \/ /\ runs[i].pc = "getValue_reviewer"
          /\ runs[i].k = Len(runs[i].ids)
          /\ data' =
               SortResult(ToResult(ScanRecord(
                   runs[i].map, runs[i].behaviorRaw, runs[i].aiRaw,
                   getValue(runs[i].cfg.reviewerFieldId, runs[i].ids[runs[i].k]))))
    /\ runs' = RemoveAt(runs, i)
    /\ loading' = FALSE
    /\ UNCHANGED <<config, table>>

\* C1: the result of a run is discarded when a newer run has been started for
\* a configuration applied since: the successful end of such a run leaves the
\* displayed series as it is.
C1_StaleRunDiscarded ==
    [][\A i \in Slots :
          (i \in DOMAIN runs /\ stale[i] /\ WritesSeries(i)) => data' = data]_vars

\* C2: no state is reachable in which a column reference of the current
\* configuration is unset or empty and a non-empty series is displayed.
C2_GateClearsSeries == ConfigIncomplete(config) => data = <<>>

\* C3: a step that applies a configuration with an unset or empty column
\* reference starts no run (no accessor call becomes pending), writes no series
\* and does not start loading; and no run in flight was started for such a
\* configuration.
C3_GateNoAccessorCalls ==
    [][/\ (config' # config /\ ConfigIncomplete(config'))
            => (runs' = runs /\ data' = data /\ loading' = loading)
       /\ \A i \in DOMAIN runs' : ~ConfigIncomplete(runs'[i].cfg)]_vars

\* C3 witness: in display state an incomplete configuration (an empty aiFieldId)
\* has been applied after a complete one was displayed, and nothing is in flight.
C3_Witness ==
    /\ state = "View"
    /\ config = Cfg(Str("f1"), Str(""), Str("f3"))
    /\ runs = <<>>
    /\ data # <<>>

\* C4: over a table that does not change, the displayed series is always empty
\* or the series of all records of the table under CfgA or CfgB; a series of
\* only the records scanned before a failure is never displayed.
C4_NoPartialSeries ==
    data = <<>> \/ \E c \in {CfgA, CfgB} : data = Aggregate(table, c)

\* C4 witness: the run for the current complete configuration has ended over a
\* table with records and left no series, so one of its awaits was rejected.
C4_Witness ==
    /\ state = "View"
    /\ config = CfgA
    /\ ~getConfigPending
    /\ runs = <<>>
    /\ table # <<>>
    /\ data = <<>>
    /\ ~loading

\* The run of SpecAgg has ended.
AggDone == config = CfgA /\ runs = <<>>

\* The canonical texts of record j of the table under the configuration.
CategoryOf(j) == normalizeText(table[j].cells[config.behaviorFieldId.s])

AiOf(j) == normalizeText(table[j].cells[config.aiFieldId.s])

ReviewerOf(j) == normalizeText(table[j].cells[config.reviewerFieldId.s])

\* The number of records of category cat whose verdict (ai or reviewer) is text.
CountAi(cat, text) ==
    Cardinality({j \in DOMAIN table : CategoryOf(j) = Str(cat) /\ AiOf(j) = Str(text)})

CountReviewer(cat, text) ==
    Cardinality({j \in DOMAIN table :
                    CategoryOf(j) = Str(cat) /\ ReviewerOf(j) = Str(text)})

\* C5: after a successful run every tuple of the series holds, for its category,
\* the number of records with AI verdict "normal", with AI verdict "violation",
\* with reviewer verdict "normal" and with reviewer verdict "violation".
C5_TallyCorrect ==
    AggDone =>
      \A j \in DOMAIN data :
         /\ data[j].aiNormal = CountAi(data[j].behavior, NORMAL)
         /\ data[j].aiViolation = CountAi(data[j].behavior, VIOLATION)
         /\ data[j].reviewerNormal = CountReviewer(data[j].behavior, NORMAL)
         /\ data[j].reviewerViolation = CountReviewer(data[j].behavior, VIOLATION)

\* C5 witness: two records of one category, one with AI "normal" and reviewer
\* "violation", the other with AI "violation" and a reviewer text that is
\* neither, have been tallied.
C5_Witness ==
    /\ AggDone
    /\ \E j \in DOMAIN data :
         /\ data[j].aiNormal = 1
         /\ data[j].aiViolation = 1
         /\ data[j].reviewerNormal = 0
         /\ data[j].reviewerViolation = 1

\* The records of the table whose canonical category is not the empty string.
WithCategory == SelectSeq(table, LAMBDA row :
                  normalizeText(row.cells[config.behaviorFieldId.s]) # Str(""))

\* C6: after a successful run the series is the series of the same records
\* without those of empty category, and no tuple has the empty category.
C6_EmptyCategoryExcluded ==
    AggDone =>
      /\ data = Aggregate(WithCategory, config)
      /\ \A j \in DOMAIN data : data[j].behavior # ""

\* C6 witness: a record of empty category with two recognised verdicts came
\* first, a record with a category second, and the series has one tuple.
C6_Witness ==
    /\ AggDone
    /\ Len(table) = 2
    /\ CategoryOf(1) = Str("")
    /\ AiOf(1) = Str(NORMAL)
    /\ ReviewerOf(1) = Str(VIOLATION)
    /\ Len(data) = 1

\* The distinct non-empty category texts among the records.
CategoriesSeen ==
    {String(CategoryOf(j)) : j \in {k \in DOMAIN table : CategoryOf(k) # Str("")}}

\* C7: after a successful run the series has exactly one tuple for every
\* distinct non-empty category text among the records, none for another text,
\* and its tuples ascend in the collation order.
C7_ShapeAndOrder ==
    AggDone =>
      /\ {data[j].behavior : j \in DOMAIN data} = CategoriesSeen
      /\ Len(data) = Cardinality(CategoriesSeen)
      /\ \A j \in DOMAIN data : \A k \in DOMAIN data :
            j < k => localeCompare(data[j].behavior, data[k].behavior) < 0

\* A step that ends an aggregation triggered in display state: a run leaves
\* (it succeeded or an await was rejected), or a configuration with an unset or
\* empty column reference is applied.
EndsAggregation ==
    /\ ~isConfig
    /\ \/ Len(runs') < Len(runs)
       \/ config' # config /\ ConfigIncomplete(config')

\* C8: when the host provides setRendered, every step that ends an aggregation
\* triggered in display state issues it.
C8_RenderCompleteSignal ==
    [][(hasSetRendered /\ EndsAggregation) => rendered' # rendered]_vars

\* C9: in display state the loading indicator is on exactly while some run is
\* in flight.
C9_LoadingIffInFlight == ~isConfig => (loading <=> runs # <<>>)

\* C10: in display state with a complete configuration, when no run is in
\* flight (none is left that could still bring the display up to date) the
\* displayed series is the aggregation of the table as it is now.
C10_RecomputeOnDataChange ==
    (~isConfig /\ ~ConfigIncomplete(config) /\ runs = <<>>)
        => data = Aggregate(table, config)

\* The raw values run i holds after their getValue resolved.
Fetched(i) == {runs[i].behaviorRaw, runs[i].aiRaw}

\* C11: normalizeText of every raw cell value a run has fetched is a string.
C11_NormalizerTotal ==
    \A i \in DOMAIN runs : \A raw \in Fetched(i) : normalizeText(raw).tag = "string"

\* C12: normalizeText of a fetched sequence is the empty string when the
\* sequence is empty and normalizeText of its first element otherwise, the same
\* for every sequence with that first element; and a record whose category cell
\* is a sequence with an absent first entry is left out of the series.
C12_FirstElementPolicy ==
    /\ \A i \in DOMAIN runs : \A raw \in Fetched(i) :
          raw.tag = "array" =>
            /\ Len(raw.elems) = 0 => normalizeText(raw) = Str("")
            /\ Len(raw.elems) > 0 =>
                  /\ normalizeText(raw) = normalizeText(raw.elems[1])
                  /\ \A w \in CellShapes :
                        (w.tag = "array" /\ Len(w.elems) > 0 /\ w.elems[1] = raw.elems[1])
                            => normalizeText(w) = normalizeText(raw)
    /\ (AggDone /\ table[1].cells["f1"].tag = "array"
           /\ (\/ Len(table[1].cells["f1"].elems) = 0
               \/ table[1].cells["f1"].elems[1] = Null))
          => data = <<>>

\* C12 witness: the run over a record whose category cell is [null, {text}]
\* and whose AI cell is [{text}, {text}] has ended.
C12_Witness ==
    /\ AggDone
    /\ table[1].cells["f1"] = Arr(<<Null, Text("jia")>>)
    /\ table[1].cells["f2"] = Arr(<<Text("jia"), Text("bing")>>)
    /\ rendered = 1

\* An object with a text property and a name property.
TextAndName ==
    Obj([p \in {"text", "name"} |-> IF p = "text" THEN Str("jia") ELSE Str("bing")])

\* C13: normalizeText of a fetched object is the value of its text property
\* when it has one (also when it has a name property), else the value of its
\* name property when it has one, else its string coercion; the series of a
\* record whose category cell has text and name is listed under the text.
C13_TagPrecedence ==
    /\ \A i \in DOMAIN runs : \A raw \in Fetched(i) :
          raw.tag = "object" =>
            normalizeText(raw) =
              IF "text" \in DOMAIN raw.props THEN raw.props["text"]
              ELSE IF "name" \in DOMAIN raw.props THEN raw.props["name"]
              ELSE Str("[object Object]")
    /\ (AggDone /\ table[1].cells["f1"] = TextAndName)
          => (Len(data) = 1 /\ data[1].behavior = "jia")

\* C13 witness: the run over a record whose category cell has text and name
\* and whose AI cell has neither has ended with one tuple.
C13_Witness ==
    /\ AggDone
    /\ table[1].cells["f1"] = TextAndName
    /\ table[1].cells["f2"] = Obj([p \in {"id"} |-> Str("opt1")])
    /\ Len(data) = 1

\* C14: when every pending accessor call eventually resolves or rejects, the
\* loading indicator, once a run has set it, is set to false again, whether the
\* run succeeds or an await of it is rejected.
C14_LoadingStops == loading ~> ~loading

\* C14 witness: loading is off again after two finally blocks, and the run for
\* CfgB over a table with records has left no series: an await of it was
\* rejected.
C14_Witness ==
    /\ state = "View"
    /\ config = CfgB
    /\ runs = <<>>
    /\ ~loading
    /\ hasSetRendered
    /\ rendered = 0
    /\ table # <<>>
    /\ data = <<>>

\* The orders in which the host may list the records of the table.
Orders == {p \in [DOMAIN table -> DOMAIN table] :
              \A j \in DOMAIN table : \A k \in DOMAIN table : p[j] = p[k] => j = k}

\* C15: after a successful run the displayed series is the series a run yields
\* for the same records listed in any other order: the same tuples with the
\* same counters in the same order.
C15_OrderIndependent ==
    AggDone =>
      \A p \in Orders :
         data = Aggregate([j \in DOMAIN table |-> table[p[j]]], config)

\* C16: the series a run displays at its successful end is the aggregation of
\* the table under that run's configuration, whatever series was displayed
\* before and whatever other runs in flight have tallied.
C16_WholesaleRegeneration ==
    [][\A i \in Slots :
          WritesSeries(i) => data' = Aggregate(table, runs[i].cfg)]_vars

\* C16 witness: a series is displayed and two runs overlap, each with tallies
\* of the records it has scanned so far.
C16_Witness ==
    /\ data # <<>>
    /\ Len(runs) = 2
    /\ runs[1].map # <<>>
    /\ runs[2].map # <<>>

\* The number of records run i has tallied.
Scanned(i) ==
    IF runs[i].pc \in {"getValue_behavior", "getValue_ai", "getValue_reviewer"}
    THEN runs[i].k - 1
    ELSE 0

\* The number of records among the first n of the table whose category text,
\* used as a key, is cat.
RecordsOf(cat, n) ==
    Cardinality({j \in 1 .. n : String(CategoryOf(j)) = cat})

\* The four counters of t are natural numbers and each pair sums to at most n.
TallyInBounds(t, n) ==
    /\ t.aiNormal \in Nat
    /\ t.aiViolation \in Nat
    /\ t.reviewerNormal \in Nat
    /\ t.reviewerViolation \in Nat
    /\ t.aiNormal + t.aiViolation <= n
    /\ t.reviewerNormal + t.reviewerViolation <= n

C18_SavedConfigLoaded ==
    (/\ state = "View"
     /\ ~getConfigPending
     /\ "customConfig" \in DOMAIN store
     /\ GateOpen(store["customConfig"]))
        => (config = store["customConfig"] /\ GateOpen(config))

\* C19: in the create or configuration state no run is in flight, loading is
\* false and the displayed series is the one the component started with,
\* whatever fields are selected in the panel.
C19_ConfigModeNoAggregation ==
    isConfig => (runs = <<>> /\ loading = FALSE /\ data = <<>>)

\* C19 witness: in the configuration state three fields that open the gate have
\* been selected in the panel and saved.
C19_Witness ==
    /\ isConfig
    /\ config = Cfg(Str("f3"), Str("f1"), Str("f2"))
    /\ GateOpen(config)
    /\ "customConfig" \in DOMAIN store
    /\ store["customConfig"] = config
    /\ ~getConfigPending

====
